---- MODULE Spec2Model ----
(***************************************************************************)
(* Model of Events/EventAnalysis.py: the EventAnalysis object (stocks,     *)
(* events, close, analysis, params), its three public operations           *)
(* analyse_stocks, analyse_events and average_change, and the two worker   *)
(* tasks (_process_one, event_value) that Pool.map runs per ticker.        *)
(*                                                                         *)
(* stocks, events, close, analysis, params are the object's fields.  pc is *)
(* the orchestrating thread's position: "idle" between calls, "stocks_map" *)
(* and "events_map" inside the pool.map of analyse_stocks and of           *)
(* analyse_events.  task holds the result slots of the running map, order  *)
(* the tasks that have finished, in the order they finished, and arg the   *)
(* window of the running analyse_events.  ret is the outcome of the last   *)
(* call (return value or exception), pre the fields as they were when the  *)
(* call began, emitted the positions whose window the last analyse_events  *)
(* appended, per ticker.  world is the data source and pool the Pool class *)
(* the import picked (lines 14-17).                                        *)
(*                                                                         *)
(* Positions are 0-based as in Python; TLA+ sequences are 1-based, so the  *)
(* value at position p of a column s is s[p + 1].                          *)
(* A missing value (pandas NaN) is the number NaN == -1 in a price column  *)
(* and the string "NaN" in an event column.  Quotients are exact fractions  *)
(* <<"num", n, d>>, "inf" or "nan"; x / x is exactly 1 in IEEE doubles as  *)
(* it is here, and a mean of ones is exactly 1.                            *)
(***************************************************************************)
EXTENDS Integers, Sequences, FiniteSets, TLC

VARIABLES stocks, events, close, analysis, params, pc, task, arg, pre, ret,
          emitted, order, world, pool

vars == <<stocks, events, close, analysis, params, pc, task, arg, pre, ret,
          emitted, order, world, pool>>

(* ------------------------------ bounds --------------------------------- *)

\* Number of calendar dates of the fetch range; dates are 1..NumDates.
NumDates == 12

\* Largest window argument passed to analyse_events.
MaxWindow == 1

\* Largest number of days the oracle flags in one ticker's table.
MaxEvents == 2

(* ------------------------- program constants --------------------------- *)

\* The pre-event lead: range(idx - 10, ...) and params['look_back'].
LOOK_BACK == 10

NaN == -1

Tickers == {"A", "B"}

\* Ticker lists a caller passes: none, one ticker alone, and both tickers
\* in either order.
StockLists ==
    {<< >>, <<"A">>}
        \cup {<<t, u>> : <<t, u>> \in {p \in Tickers \X Tickers : p[1] # p[2]}}

Dates == 1..NumDates

Windows == 0..MaxWindow

\* The dates an oracle may flag: the first date, the first date with a
\* full 10-day lead, and the last date.
EventDates == {1, LOOK_BACK + 1, NumDates}

\* A ticker trades on every date, or on every date but this one (0: none).
MissingDates == {0, LOOK_BACK + 1}

\* The close price on a date: falling by one a day, to 0 on the last date.
Price(d) == NumDates - d

(* ----------------------------- helpers --------------------------------- *)

Max(a, b) == IF a >= b THEN a ELSE b

\* The largest and the smallest number of a non-empty set.
MaxOf(S) == CHOOSE x \in S : \A y \in S : y <= x

MinOf(S) == CHOOSE x \in S : \A y \in S : x <= y

\* The elements of a set of numbers as an increasing sequence.
RECURSIVE SortedSeq(_)
SortedSeq(S) ==
    IF S = {} THEN << >>
    ELSE <<MinOf(S)>> \o SortedSeq(S \ {MinOf(S)})

RECURSIVE Flatten(_)
Flatten(ss) == IF ss = << >> THEN << >> ELSE Head(ss) \o Flatten(Tail(ss))

SeqToSet(s) == {s[i] : i \in 1..Len(s)}

\* Python's range(a, b) as a sequence.
Range(a, b) == [k \in 1..Max(b - a, 0) |-> a + k - 1]

(* --------------------- web.DataReader and the oracle ------------------- *)

\* The price table web.DataReader returns for one ticker, with the oracle's
\* boolean series on the same index: the ticker's trading dates, its close
\* price on each and the flag.
Table(missing, evs) ==
    LET ds == Dates \ {missing}
    IN  [dates |-> ds,
         Close |-> [d \in ds |-> Price(d)],
         ev    |-> [d \in ds |-> IF d \in evs THEN "True" ELSE "False"]]

NoTable == [dates |-> {}, Close |-> << >>, ev |-> << >>]

\* _process_one(ticker): fetch, run the oracle, return (ticker, events, data).
\* Either call may raise; the result record carries the outcome.
process_one(ticker, fetched, table) ==
    IF fetched
    THEN [status |-> "ok", ticker |-> ticker, table |-> table, exc |-> ""]
    ELSE [status |-> "raise", ticker |-> ticker, table |-> NoTable,
          exc |-> "FetchOrOracleError"]

Pending == [status |-> "pending"]

(* ------------------------------ pd.concat ------------------------------ *)

\* pd.concat([...], axis=1, keys=stocks) of per-ticker series: the row axis
\* is the sorted union of the series' dates, and a ticker has a missing
\* value on each date it does not trade.
UnionIndex(results) ==
    SortedSeq(UNION {results[i].table.dates : i \in DOMAIN results})

ConcatEvents(keys, results) ==
    LET index == UnionIndex(results)
    IN  [t \in SeqToSet(keys) |->
            LET i == CHOOSE j \in DOMAIN results : keys[j] = t
                tb == results[i].table
            IN  [p \in 1..Len(index) |->
                    IF index[p] \in tb.dates THEN tb.ev[index[p]] ELSE "NaN"]]

ConcatClose(keys, results) ==
    LET index == UnionIndex(results)
    IN  [t \in SeqToSet(keys) |->
            LET i == CHOOSE j \in DOMAIN results : keys[j] = t
                tb == results[i].table
            IN  [p \in 1..Len(index) |->
                    IF index[p] \in tb.dates THEN tb.Close[index[p]] ELSE NaN]]

(* ------------------------------- state --------------------------------- *)

None == [isNone |-> TRUE, cols |-> << >>]

Some(c) == [isNone |-> FALSE, cols |-> c]

\* The five fields of the object.
Fields == [stocks |-> stocks, events |-> events, close |-> close,
           analysis |-> analysis, params |-> params]

NoRet == [op |-> "none", status |-> "none", exc |-> "", window |-> -1,
          ticker |-> "", value |-> << >>, again |-> FALSE]

\* No value is returned while a call is running; again records that the
\* running call repeats the call that returned just before it.
Running(again) == [NoRet EXCEPT !.op = "running", !.again = again]

\* Lines 14-17: multiprocessing.Pool on posix, ThreadPool elsewhere.
Pools == {"Pool", "ThreadPool"}

Tables ==
    {Table(m, e) : <<m, e>> \in
        {x \in MissingDates \X SUBSET EventDates :
            Cardinality(x[2]) <= MaxEvents /\ x[1] \notin x[2]}}

\* __init__; the close attribute does not exist until analyse_stocks sets it.
\* world is what the data source holds and the caller's oracle answers for
\* each ticker over the (default) date range: historical data, the same at
\* every fetch.
Init ==
    /\ world \in [Tickers -> Tables]
    /\ pool \in Pools
    /\ stocks = << >>
    /\ events = None
    /\ close = None
    /\ analysis = None
    /\ params = {}
    /\ pc = "idle"
    /\ task = << >>
    /\ arg = -1
    /\ pre = Fields
    /\ ret = NoRet
    /\ emitted = << >>
    /\ order = << >>

(* --------------------------- analyse_stocks ---------------------------- *)

\* Lines 77-83: self.stocks = stocks, then pool.map hands one _process_one
\* task per ticker to the pool.
AnalyseStocksCall(s) ==
    /\ pc = "idle"
    /\ pre' = Fields
    /\ stocks' = s
    /\ task' = [i \in 1..Len(s) |-> Pending]
    /\ pc' = "stocks_map"
    /\ arg' = -1
    /\ ret' = Running(FALSE)
    /\ order' = << >>
    /\ UNCHANGED <<events, close, analysis, params, emitted, world, pool>>

\* A faulty map: results are kept in the order in which tasks finish.
PutResultAsCompleted(results, i, r) == [results EXCEPT ![Len(order) + 1] = r]

\* pool.map stores the result of the i-th task in the i-th slot, whatever
\* the order in which tasks finish.
PutResult(results, i, r) == [results EXCEPT ![i] = r]

\* One _process_one task finishes.
ProcessOne(i, fetched) ==
    /\ pc = "stocks_map"
    /\ i \in DOMAIN task
    /\ i \notin SeqToSet(order)
    /\ task' = PutResult(task, i, process_one(stocks[i], fetched, world[stocks[i]]))
    /\ order' = Append(order, i)
    /\ UNCHANGED <<stocks, events, close, analysis, params, pc, arg, pre, ret,
                   emitted, world, pool>>

\* order lists the tasks of the running map in the order they finished.
AllDone == Len(order) = Len(task)

Raised == {i \in DOMAIN task : task[i].status = "raise"}

\* pool.map returns (or re-raises a task's exception); lines 85-89 build the
\* two tables.  pd.concat of an empty list raises ValueError.
AnalyseStocksReturn ==
    /\ pc = "stocks_map"
    /\ AllDone
    /\ IF Raised # {}
       THEN /\ ret' = [NoRet EXCEPT !.op = "analyse_stocks", !.status = "raise",
                                    !.exc = "FetchOrOracleError"]
            /\ UNCHANGED <<events, close>>
       ELSE IF Len(task) = 0
       THEN /\ ret' = [NoRet EXCEPT !.op = "analyse_stocks", !.status = "raise",
                                    !.exc = "ValueError"]
            /\ UNCHANGED <<events, close>>
       ELSE /\ events' = Some(ConcatEvents(stocks, task))
            /\ close' = Some(ConcatClose(stocks, task))
            /\ ret' = [NoRet EXCEPT !.op = "analyse_stocks", !.status = "ok"]
    /\ pc' = "idle"
    /\ task' = << >>
    /\ pre' = [Fields EXCEPT !.events = events', !.close = close']
    /\ order' = << >>
    /\ UNCHANGED <<stocks, analysis, params, arg, emitted, world, pool>>

(* --------------------------- analyse_events ---------------------------- *)

\* Line 106: `if not is_event: continue`.  Python's `not` is true of False
\* only; a missing value (NaN) is truthy, like True.
IsEvent(cell) == cell # "False"

\* Series.iloc[list]: the positional indexers are valid when none is >= n
\* or < -n (IndexError otherwise); a negative one counts from the end.
ILocValid(n, idxs) ==
    \A k \in DOMAIN idxs : idxs[k] < n /\ idxs[k] >= -n

ILoc(col, idxs) ==
    [k \in DOMAIN idxs |->
        col[(IF idxs[k] < 0 THEN Len(col) + idxs[k] ELSE idxs[k]) + 1]]

\* Line 108: val_range = range(idx - 10, idx + window + 1).
ValRange(idx, window) == Range(idx - LOOK_BACK, idx + window + 1)

\* Lines 105-112: the positions whose window is appended to evt_list, in
\* enumeration order: the cell is an event and iloc raises no IndexError.
EventIdxs(ev, cl, window) ==
    SelectSeq(Range(0, Len(ev)),
              LAMBDA idx : /\ IsEvent(ev[idx + 1])
                           /\ ILocValid(Len(cl), ValRange(idx, window)))

\* evt_list after the loop.
EvtList(ev, cl, window) ==
    LET idxs == EventIdxs(ev, cl, window)
    IN  [n \in DOMAIN idxs |-> ILoc(cl, ValRange(idxs[n], window))]

\* Line 114: "%s_%d" % (ticker, i) for i in range(len(evt_list)).
ColName(ticker, i) == ticker \o "_" \o ToString(i)

ColNames(ticker, n) == [i \in 1..n |-> ColName(ticker, i - 1)]

\* zip(*evt_list): the rows of the frame; as many as the shortest list.
MinLen(lists) == MinOf({Len(lists[j]) : j \in DOMAIN lists})

Zip(lists) ==
    IF lists = << >> THEN << >>
    ELSE [r \in 1..MinLen(lists) |-> [j \in DOMAIN lists |-> lists[j][r]]]

\* pd.DataFrame(data=rows, columns=colnames), held column by column.
DataFrame(rows, colnames) ==
    [j \in DOMAIN colnames |->
        [label |-> colnames[j], vals |-> [r \in DOMAIN rows |-> rows[r][j]]]]

\* event_value(ticker), lines 103-117.  events[ticker] raises KeyError for
\* a ticker that is no column of the store.
event_value(ticker, window) ==
    IF ticker \notin DOMAIN events.cols
    THEN [status |-> "raise", ticker |-> ticker, frame |-> << >>,
          idxs |-> << >>]
    ELSE LET ev == events.cols[ticker]
             cl == close.cols[ticker]
             evt_list == EvtList(ev, cl, window)
         IN  [status |-> "ok",
              ticker |-> ticker,
              frame  |-> DataFrame(Zip(evt_list), ColNames(ticker, Len(evt_list))),
              idxs   |-> EventIdxs(ev, cl, window)]

\* pd.concat(data, axis=1): the frames' columns in list order, then in
\* each frame's own order; rows are joined on the offset index and a
\* shorter column is padded with missing values.
MaxRows(cols) == MaxOf({0} \cup {Len(cols[j].vals) : j \in DOMAIN cols})

Concat(frames) ==
    LET cols == Flatten(frames)
        n == MaxRows(cols)
    IN  [j \in DOMAIN cols |->
            [label |-> cols[j].label,
             vals  |-> [r \in 1..n |-> IF r <= Len(cols[j].vals)
                                       THEN cols[j].vals[r] ELSE NaN]]]

\* Line 122.
Params(window) == {<<"window", window>>, <<"look_back", LOOK_BACK>>}

\* Lines 100-101 and 119-120: self.close raises AttributeError before
\* analyse_stocks has set it; otherwise one event_value task per ticker.
\* event_value is a function local to the call: a process pool cannot
\* pickle it to send it to a worker, and its map raises before any task
\* runs; a thread pool calls it in place.
AnalyseEventsCall(window) ==
    /\ pc = "idle"
    /\ pre' = Fields
    /\ IF close.isNone \/ (pool = "Pool" /\ Len(stocks) > 0)
       THEN /\ ret' = [NoRet EXCEPT !.op = "analyse_events", !.status = "raise",
                                    !.exc = IF close.isNone THEN "AttributeError"
                                            ELSE "PicklingError",
                                    !.window = window]
            /\ UNCHANGED <<pc, task, arg, order>>
       ELSE /\ task' = [i \in 1..Len(stocks) |-> Pending]
            /\ order' = << >>
            /\ pc' = "events_map"
            /\ arg' = window
            /\ ret' = Running(/\ ret.op = "analyse_events"
                              /\ ret.status = "ok"
                              /\ ret.window = window)
    /\ UNCHANGED <<stocks, events, close, analysis, params, emitted, world, pool>>

\* One event_value task finishes.
EventValue(i) ==
    /\ pc = "events_map"
    /\ i \in DOMAIN task
    /\ i \notin SeqToSet(order)
    /\ task' = PutResult(task, i, event_value(stocks[i], arg))
    /\ order' = Append(order, i)
    /\ UNCHANGED <<stocks, events, close, analysis, params, pc, arg, pre, ret,
                   emitted, world, pool>>

\* The appended positions of every ticker of the call, from the results.
Emitted(results) ==
    [t \in {results[i].ticker : i \in DOMAIN results} |->
        results[CHOOSE i \in DOMAIN results : results[i].ticker = t].idxs]

\* A faulty aggregation: the new columns are added to the earlier table.
NewAnalysisKeepingOld(frames) ==
    Some(Concat((IF analysis.isNone THEN << >> ELSE <<analysis.cols>>) \o frames))

\* Line 121: self.analysis = data = pd.concat(data, axis=1).
NewAnalysis(frames) == Some(Concat(frames))

\* Lines 120-122: pool.map returns the frames in list order (or re-raises),
\* and the table and the parameters replace the earlier ones.
AnalyseEventsReturn ==
    /\ pc = "events_map"
    /\ AllDone
    /\ IF Raised # {} \/ Len(task) = 0
       THEN /\ ret' = [NoRet EXCEPT !.op = "analyse_events", !.status = "raise",
                                    !.exc = IF Raised # {} THEN "KeyError"
                                            ELSE "ValueError",
                                    !.window = arg]
            /\ UNCHANGED <<analysis, params, emitted>>
       ELSE /\ analysis' = NewAnalysis([i \in DOMAIN task |-> task[i].frame])
            /\ params' = Params(arg)
            /\ emitted' = Emitted(task)
            /\ ret' = [NoRet EXCEPT !.op = "analyse_events", !.status = "ok",
                                    !.window = arg,
                                    !.again = ret.again]
    /\ pc' = "idle"
    /\ task' = << >>
    /\ arg' = -1
    /\ pre' = [Fields EXCEPT !.analysis = analysis', !.params = params']
    /\ UNCHANGED <<stocks, events, close, order, world, pool>>

(* --------------------------- average_change --------------------------- *)

nan == <<"nan", 0, 1>>

inf == <<"inf", 0, 1>>

\* Float division x / d of two cells, as the fraction <<"num", x, d>>: a
\* missing operand gives nan, 0 / 0 gives nan, a positive price over 0
\* gives inf.
Div(x, d) ==
    IF x = NaN \/ d = NaN THEN nan
    ELSE IF d = 0 THEN (IF x = 0 THEN nan ELSE inf)
    ELSE <<"num", x, d>>

\* data.divide(data.loc[look_back, :], axis=1): every column over its own
\* value in the row labelled look_back.
Divide(cols, look_back) ==
    [j \in DOMAIN cols |->
        [r \in DOMAIN cols[j].vals |->
            Div(cols[j].vals[r], cols[j].vals[look_back + 1])]]

\* The sum of fractions, over the product of their denominators.
RECURSIVE DenProd(_)
DenProd(qs) == IF qs = << >> THEN 1 ELSE Head(qs)[3] * DenProd(Tail(qs))

RECURSIVE NumSum(_)
NumSum(qs) ==
    IF qs = << >> THEN 0
    ELSE Head(qs)[2] * DenProd(Tail(qs)) + Head(qs)[3] * NumSum(Tail(qs))

\* Series.mean(), skipna=True: the mean of the entries that are not nan;
\* nan when there is none, inf when one of them is inf.
Mean(qs) ==
    LET valid == SelectSeq(qs, LAMBDA q : q # nan)
    IN  IF valid = << >> THEN nan
        ELSE IF \E k \in DOMAIN valid : valid[k] = inf THEN inf
        ELSE <<"num", NumSum(valid), DenProd(valid) * Len(valid)>>

\* val.mean(axis=1): one mean per row, across the columns.
RowMeans(val, nrows) ==
    [r \in 1..nrows |-> Mean([j \in DOMAIN val |-> val[j][r]])]

NoTicker == "None"

\* average_change(ticker), lines 125-130.  data is bound only when ticker
\* is None; for any other ticker line 129 reads an unbound local.  On None
\* (no analysis yet) data.divide raises AttributeError; .loc raises KeyError
\* when the table has no row labelled look_back.
average_change(ticker) ==
    LET out == [NoRet EXCEPT !.op = "average_change", !.ticker = ticker]
    IN  IF ticker # NoTicker
        THEN [out EXCEPT !.status = "raise", !.exc = "UnboundLocalError"]
        ELSE IF analysis.isNone
        THEN [out EXCEPT !.status = "raise", !.exc = "AttributeError"]
        ELSE LET look_back == (CHOOSE kv \in params : kv[1] = "look_back")[2]
                 data == analysis.cols
             IN  IF MaxRows(data) <= look_back
                 THEN [out EXCEPT !.status = "raise", !.exc = "KeyError"]
                 ELSE [out EXCEPT !.status = "ok",
                                  !.value = RowMeans(Divide(data, look_back),
                                                     MaxRows(data))]

AverageChange(ticker) ==
    /\ pc = "idle"
    /\ pre' = Fields
    /\ ret' = average_change(ticker)
    /\ UNCHANGED <<stocks, events, close, analysis, params, pc, task, arg,
                   emitted, order, world, pool>>

Next ==
    \/ \E s \in StockLists : AnalyseStocksCall(s)
    \/ \E i \in DOMAIN task, fetched \in BOOLEAN : ProcessOne(i, fetched)
    \/ AnalyseStocksReturn
    \/ \E w \in Windows : AnalyseEventsCall(w)
    \/ \E i \in DOMAIN task : EventValue(i)
    \/ AnalyseEventsReturn
    \/ \E t \in Tickers \cup {NoTicker} : AverageChange(t)

Spec == Init /\ [][Next]_vars

(* ------------------------------ properties ----------------------------- *)

\* analyse_events has just returned normally: the table, the parameters
\* and the appended positions are those of the current store and list.
EventsDone == pc = "idle" /\ ret.op = "analyse_events" /\ ret.status = "ok"

\* average_change() has just returned a profile.
ProfileReturned ==
    ret.op = "average_change" /\ ret.status = "ok" /\ ret.ticker = NoTicker

\* A fraction that equals 1.
IsOne(q) == q[1] = "num" /\ q[2] = q[3]

\* Position i has the full 10-day lead and the full window in a series of
\* n values.
InBounds(i, window, n) == i - 10 >= 0 /\ i + window < n

SeriesLen(t) == Len(close.cols[t])

Label(t, n) == t \o "_" \o ToString(n)

\* The in-bounds positions of ticker t whose event value is True.
TrueInBounds(t, window) ==
    {i \in 0..(SeriesLen(t) - 1) :
        events.cols[t][i + 1] = "True" /\ InBounds(i, window, SeriesLen(t))}

RECURSIVE SumOver(_, _)
SumOver(ts, window) ==
    IF ts = << >> THEN 0
    ELSE Cardinality(TrueInBounds(Head(ts), window)) + SumOver(Tail(ts), window)

\* C1: whenever average_change() returns a profile (so at least one window
\* survived), the profile's value at offset 10 is 1.
C1_LookBackIsOne == ProfileReturned => IsOne(ret.value[10 + 1])

\* C2: analyse_events appends no window for an event position i with
\* i - 10 < 0 or i + window at or beyond the series length; an event at
\* position 0 is always dropped.
C2_BoundaryExclusion ==
    EventsDone =>
        \A t \in DOMAIN emitted : \A k \in DOMAIN emitted[t] :
            InBounds(emitted[t][k], ret.window, SeriesLen(t))

\* C3: every stored window has 11 + W entries, offset 10 being the close
\* at the event position i, offsets 0..9 positions i-10..i-1 and offsets
\* 11..10+W positions i+1..i+W.
C3_WindowShape ==
    EventsDone =>
        \A j \in DOMAIN analysis.cols :
            \E t \in DOMAIN emitted : \E n \in DOMAIN emitted[t] :
                LET i == emitted[t][n]
                    v == analysis.cols[j].vals
                IN  /\ analysis.cols[j].label = Label(t, n - 1)
                    /\ Len(v) = 11 + ret.window
                    /\ \A o \in 0..(10 + ret.window) :
                          /\ i - 10 + o \in 0..(SeriesLen(t) - 1)
                          /\ v[o + 1] = close.cols[t][i - 10 + o + 1]

\* C4: the table has as many columns as there are in-bounds True events
\* over the tickers of the list, and a ticker without a True entry has no
\* column.
C4_ColumnCount ==
    EventsDone =>
        /\ Len(analysis.cols) = SumOver(stocks, ret.window)
        /\ \A t \in SeqToSet(stocks) :
              (\A p \in DOMAIN events.cols[t] : events.cols[t][p] # "True")
                  => \A j \in DOMAIN analysis.cols :
                        analysis.cols[j].label # Label(t, 0)

\* C5: average_change(t) with a ticker t returns the profile that
\* average_change() returns over the full table.
C5_TickerIgnored ==
    (/\ ret.op = "average_change"
     /\ ret.ticker # NoTicker
     /\ average_change(NoTicker).status = "ok")
        => /\ ret.status = "ok"
           /\ ret.value = average_change(NoTicker).value

\* C6: when analyse_stocks fails, every field of the object has the value
\* it had before the call.
C6_FailedBatchNoChange ==
    [][(pc = "stocks_map" /\ pc' = "idle" /\ ret'.status = "raise")
           => Fields' = pre]_vars

\* C7: average_change signals an error whenever the table has no column
\* or some window has the value 0 at the look-back row.
C7_DegenerateSignalled ==
    (/\ ret.op = "average_change"
     /\ ret.ticker = NoTicker
     /\ ~analysis.isNone
     /\ \/ Len(analysis.cols) = 0
        \/ \E j \in DOMAIN analysis.cols : analysis.cols[j].vals[10 + 1] = 0)
        => ret.status = "raise"

\* C8: a call of analyse_events(W) that follows a call of
\* analyse_events(W) leaves the table, the parameters and the profile of
\* average_change() as they were; any call that returns leaves a table of
\* windows of 11 + W entries and the parameters of this call, whatever the
\* earlier window was.
C8_Idempotent ==
    [][(pc = "events_map" /\ pc' = "idle" /\ ret'.status = "ok")
           => /\ ret.again =>
                    /\ analysis' = analysis
                    /\ params' = params
                    /\ average_change(NoTicker)' = average_change(NoTicker)
              /\ params' = {<<"window", arg>>, <<"look_back", 10>>}
              /\ \A j \in DOMAIN analysis'.cols :
                    Len(analysis'.cols[j].vals) = 11 + arg]_vars

\* C8 witness: a repeated analyse_events(W) has returned, over a table
\* with at least one window.
C8_Witness == EventsDone /\ ret.again /\ Len(analysis.cols) >= 1

\* The labels the claim names: the tickers in list order, and for each the
\* ordinals 0, 1, ... of its appended windows.
ClaimedLabels ==
    Flatten([i \in DOMAIN stocks |->
                [n \in 1..Len(emitted[stocks[i]]) |-> Label(stocks[i], n - 1)]])

C10_OnlyTrueEvents ==
    EventsDone =>
        \A t \in DOMAIN emitted : \A k \in DOMAIN emitted[t] :
            events.cols[t][emitted[t][k] + 1] = "True"


====
